---- MODULE Spec2Model ----
(***************************************************************************)
(* The sign-up form of frontend/src/pages/SignUp.tsx: the three React      *)
(* state cells (formData, errors, isSubmitting), the change/blur handler   *)
(* validate, the submit handler handleSubmit up to and after its await,    *)
(* and the collaborators it drives (register, toast, history).             *)
(*                                                                         *)
(* A JavaScript string typed into a field is a sequence of one-character   *)
(* strings, so that trim() and the password regular expression are         *)
(* computed character by character.  Error texts and server messages are   *)
(* TLA+ strings; they are only compared and tested for truthiness.         *)
(***************************************************************************)
EXTENDS Integers, Sequences, FiniteSets, TLC

VARIABLES formData, errors, isSubmitting, disabled, pending, issued,
          toasts, navs, lastEvent

\* formData      the useState cell of lines 34-38: the three field values
\* errors        the useState cell of lines 39-44: a JS object, modelled as a
\*               function from property names to texts; handleSubmit stores
\*               an object without the repeatPassword property
\* isSubmitting  the useState cell of line 45
\* disabled      the submit button's disabled attribute in the last render
\*               (lines 170-175); handleSubmit does not consult it
\* pending       the credentials of the register calls awaited at line 106
\* issued        how many times register has been called
\* toasts        the calls made to toast.success / toast.error, in order
\* navs          the paths given to history.push, in order (history is a
\*               collaborator: the form stays mounted after the call)
\* lastEvent     the handler that ran last: which one, for validate the
\*               field, for the end of handleSubmit the call's outcome, and
\*               what it found when it started: whether repeatPassword was
\*               non-empty, and the password error
vars == <<formData, errors, isSubmitting, disabled, pending, issued,
          toasts, navs, lastEvent>>

\* ------------------------------------------------------------------ bounds

\* Registration calls issued in one run (caps the notification log).
MaxCalls == 2

\* Characters put in front of a stem to make a password for the policy.
MaxPrefix == 3

\* ------------------------------------------------------- program constants

REQUIRED == "Required"
PASSWORD_REQUIREMENTS_MISMATCH == "Password must contain at least 8 characters, one uppercase letter, one lowercase letter, and one number and special character"
PASSWORDS_DO_NOT_MATCH == "Passwords do not match"
REGISTERED_SUCCESSFULLY == "Registered successfully"
REGISTER_FAILED == "An error occurred while registering"
LOGIN_PATH == "/login"

\* The {8,} quantifier of passwordRegex.
MinPasswordLength == 8

\* JavaScript's undefined: the value of a property an object does not have.
undefined == "<undefined>"

\* ------------------------------------------------------------ JS strings

Lower == {"a","b","c","d","e","f","g","h","i","j","k","l","m",
          "n","o","p","q","r","s","t","u","v","w","x","y","z"}
Upper == {"A","B","C","D","E","F","G","H","I","J","K","L","M",
          "N","O","P","Q","R","S","T","U","V","W","X","Y","Z"}
Digit == {"0","1","2","3","4","5","6","7","8","9"}

\* Characters TLA+ has no escape for, each written <U+XXXX> and taken as
\* one character.  A password input strips the line feed and the carriage
\* return from what is typed or pasted into it, and nothing else, so
\* U+2028 and U+2029 are the line terminators a field value can hold.
VerticalTab == "<U+000B>"
NoBreakSpace == "<U+00A0>"
LineSeparator == "<U+2028>"
ParagraphSeparator == "<U+2029>"

\* The Unicode Space_Separator characters other than U+0020 and U+00A0,
\* and the byte order mark.
UnicodeSpaces ==
    {"<U+1680>", "<U+2000>", "<U+2001>", "<U+2002>", "<U+2003>", "<U+2004>",
     "<U+2005>", "<U+2006>", "<U+2007>", "<U+2008>", "<U+2009>", "<U+200A>",
     "<U+202F>", "<U+205F>", "<U+3000>", "<U+FEFF>"}

\* What "." of a regular expression without the s flag refuses to match:
\* the four ECMAScript LineTerminator code points.
LineTerminator == {"\n", "\r", LineSeparator, ParagraphSeparator}

\* What String.prototype.trim strips: ECMAScript's WhiteSpace and
\* LineTerminator, 25 code units in all.
WhiteSpace ==
    {"\t", VerticalTab, "\f", " ", NoBreakSpace}
        \cup UnicodeSpaces \cup LineTerminator

RECURSIVE TrimStart(_)
TrimStart(s) ==
    IF s # <<>> /\ Head(s) \in WhiteSpace THEN TrimStart(Tail(s)) ELSE s

RECURSIVE TrimEnd(_)
TrimEnd(s) ==
    IF s # <<>> /\ s[Len(s)] \in WhiteSpace
    THEN TrimEnd(SubSeq(s, 1, Len(s) - 1))
    ELSE s

\* value.trim()
Trim(s) == TrimEnd(TrimStart(s))

\* Truthiness of a string-or-undefined value, as in `x ? a : b', `!!x', `a || b'.
Truthy(x) == x # "" /\ x # undefined

\* obj[key]: undefined when the object has no such property.
Prop(obj, key) == IF key \in DOMAIN obj THEN obj[key] ELSE undefined

\* {...obj, ...upd}
Spread(obj, upd) ==
    [k \in (DOMAIN obj) \cup (DOMAIN upd) |->
        IF k \in DOMAIN upd THEN upd[k] ELSE obj[k]]

\* ------------------------------------------------------ validation engine

\* validateEmpty: value.trim() ? "" : REQUIRED
validateEmpty(value) == IF Trim(value) # <<>> THEN "" ELSE REQUIRED

\* (?=.*[cls]) anchored at the start: some character of the class, with no
\* line terminator before it.
LookAhead(s, cls) ==
    \E i \in 1..Len(s) :
        /\ s[i] \in cls
        /\ \A j \in 1..(i - 1) : s[j] \notin LineTerminator

\* [\W_]: everything but a letter or a digit.
IsSpecial(c) == c \notin (Lower \cup Upper \cup Digit)

\* passwordRegex.test(password).  The body class [a-zA-Z\d\W_] matches any
\* character, so the body only asks for the length.
passwordRegexTest(s) ==
    /\ LookAhead(s, Lower)
    /\ LookAhead(s, Upper)
    /\ LookAhead(s, Digit)
    /\ LookAhead(s, {s[i] : i \in {j \in 1..Len(s) : IsSpecial(s[j])}})
    /\ Len(s) >= MinPasswordLength

validatePassword(password) ==
    IF Trim(password) = <<>> THEN REQUIRED
    ELSE IF ~passwordRegexTest(password) THEN PASSWORD_REQUIREMENTS_MISMATCH
    ELSE ""

\* ------------------------------------------------------------- the inputs

\* What the e-mail input delivers to validate: nothing, a blank, an
\* address.  A type=email input strips leading and trailing ASCII white
\* space from its value, so the blank it can deliver is not U+0020 but a
\* character such as U+00A0, which trim() strips and the input keeps.
EmailValues == { <<>>, <<NoBreakSpace>>, <<"a","@","b",".","c","o","m">> }

\* What a user types into either password field: nothing, a blank, a
\* password that fails the policy, one that meets it.
PasswordValues ==
    { <<>>, <<" ">>, <<"w","e","a","k">>,
      <<"A","b","c","1","2","3","4","5","!">> }

Fields == {"email", "password", "passwordValidate"}

InputValues(field) == IF field = "email" THEN EmailValues ELSE PasswordValues

\* What `await register(...)' can produce: a response whose message is
\* absent, the empty string or a text, or an exception.
Messages == {undefined, "", "Email taken"}

Outcomes ==
    [kind : {"resolve"}, message : Messages]
        \cup {[kind |-> "throw", message |-> undefined]}

NoOutcome == [kind |-> "none", message |-> undefined]

\* --------------------------------------------------------------- validate

\* setFormData({...formData, [field]: value})
validateFormData(fd, field, value) == Spread(fd, field :> value)

\* validate with the comparison made only between non-blank values.
validateErrors_BlankAware(errs, fd, field, value) ==
    IF field = "email"
    THEN Spread(errs, field :> validateEmpty(value))
    ELSE LET sibling == IF field = "password" THEN fd.passwordValidate
                        ELSE fd.password
             passwordsMatch ==
                 \/ Trim(value) = <<>>
                 \/ Trim(sibling) = <<>>
                 \/ value = sibling
         IN  Spread(errs,
                    (field :> validateEmpty(value))
                    @@ ("repeatPassword" :>
                           IF passwordsMatch THEN "" ELSE PASSWORDS_DO_NOT_MATCH))

\* validate with one setErrors for all three fields, so that an e-mail edit
\* recomputes repeatPassword too.
validateErrors_EmailRecomputesMismatch(errs, fd, field, value) ==
    LET passwordsMatch ==
            IF field = "password" THEN value = fd.passwordValidate
            ELSE value = fd.password
    IN  Spread(errs,
               (field :> validateEmpty(value))
               @@ ("repeatPassword" :>
                      IF passwordsMatch THEN "" ELSE PASSWORDS_DO_NOT_MATCH))

\* validate with the two branches of passwordsMatch exchanged: the new
\* value is compared with the old value of its own field.
validateErrors_SwappedSibling(errs, fd, field, value) ==
    IF field = "email"
    THEN Spread(errs, field :> validateEmpty(value))
    ELSE LET passwordsMatch ==
                 IF field = "password"
                 THEN value = fd.password
                 ELSE value = fd.passwordValidate
         IN  Spread(errs,
                    (field :> validateEmpty(value))
                    @@ ("repeatPassword" :>
                           IF passwordsMatch THEN "" ELSE PASSWORDS_DO_NOT_MATCH))

\* validate building the password branch's object without ...errors.
validateErrors_NoSpread(errs, fd, field, value) ==
    IF field = "email"
    THEN Spread(errs, field :> validateEmpty(value))
    ELSE LET passwordsMatch ==
                 IF field = "password"
                 THEN value = fd.passwordValidate
                 ELSE value = fd.password
         IN  Spread([email |-> "", password |-> "", passwordValidate |-> ""],
                    (field :> validateEmpty(value))
                    @@ ("repeatPassword" :>
                           IF passwordsMatch THEN "" ELSE PASSWORDS_DO_NOT_MATCH))

\* validate checking the password field with validatePassword, as
\* handleSubmit does.
validateErrors_PolicyWhileTyping(errs, fd, field, value) ==
    IF field = "email"
    THEN Spread(errs, field :> validateEmpty(value))
    ELSE LET passwordsMatch ==
                 IF field = "password"
                 THEN value = fd.passwordValidate
                 ELSE value = fd.password
         IN  Spread(errs,
                    (field :> IF field = "password" THEN validatePassword(value)
                              ELSE validateEmpty(value))
                    @@ ("repeatPassword" :>
                           IF passwordsMatch THEN "" ELSE PASSWORDS_DO_NOT_MATCH))

\* validate keeping an error the field already has: errors[field] ||
\* validateEmpty(value).
validateErrors_KeepsFieldError(errs, fd, field, value) ==
    LET kept == IF Truthy(Prop(errs, field)) THEN errs[field]
                ELSE validateEmpty(value)
    IN  IF field = "email"
        THEN Spread(errs, field :> kept)
        ELSE LET passwordsMatch ==
                     IF field = "password"
                     THEN value = fd.passwordValidate
                     ELSE value = fd.password
             IN  Spread(errs,
                        (field :> kept)
                        @@ ("repeatPassword" :>
                               IF passwordsMatch THEN ""
                               ELSE PASSWORDS_DO_NOT_MATCH))

\* The two setErrors of validate.
validateErrors(errs, fd, field, value) ==
    IF field = "email"
    THEN Spread(errs, field :> validateEmpty(value))
    ELSE LET isPasswordField == field = "password"
             passwordsMatch ==
                 IF isPasswordField
                 THEN value = fd.passwordValidate
                 ELSE value = fd.password
         IN  Spread(errs,
                    (field :> validateEmpty(value))
                    @@ ("repeatPassword" :>
                           IF passwordsMatch THEN "" ELSE PASSWORDS_DO_NOT_MATCH))

\* ----------------------------------------------------------- handleSubmit

\* handleSubmit checking the password with validateEmpty, as validate does.
submitErrors_NoPolicy(errs, fd) ==
    [email |-> validateEmpty(fd.email),
     password |-> validateEmpty(fd.password),
     passwordValidate |->
         IF Trim(fd.passwordValidate) = <<>> THEN REQUIRED
         ELSE IF fd.password # fd.passwordValidate THEN PASSWORDS_DO_NOT_MATCH
         ELSE ""]

\* handleSubmit spreading the old errors into the new object, as validate
\* does.
submitErrors_KeepsMismatch(errs, fd) ==
    Spread(errs,
           [email |-> validateEmpty(fd.email),
            password |-> validatePassword(fd.password),
            passwordValidate |->
                IF Trim(fd.passwordValidate) = <<>> THEN REQUIRED
                ELSE IF fd.password # fd.passwordValidate
                THEN PASSWORDS_DO_NOT_MATCH
                ELSE ""])

\* The three submit-time checks and the setErrors that stores them: the
\* object literal has no repeatPassword property and spreads nothing.
submitErrors(errs, fd) ==
    LET email == fd.email
        password == fd.password
        passwordValidate == fd.passwordValidate
        emailError == validateEmpty(email)
        passwordError == validatePassword(password)
        passwordValidateError ==
            IF Trim(passwordValidate) = <<>> THEN REQUIRED
            ELSE IF password # passwordValidate THEN PASSWORDS_DO_NOT_MATCH
            ELSE ""
    IN  [email |-> emailError,
         password |-> passwordError,
         passwordValidate |-> passwordValidateError]

\* if (emailError || passwordError || passwordValidateError) return;
submitRejected(errs) ==
    Truthy(errs.email) \/ Truthy(errs.password) \/ Truthy(errs.passwordValidate)

\* The try block without its else: a response with a message is notified
\* as an error and then treated as a success.
settleEffects_NavigatesOnMessage(outcome) ==
    IF outcome.kind = "throw"
    THEN [toasts |-> << [kind |-> "error", text |-> REGISTER_FAILED] >>,
          navs |-> << >>]
    ELSE IF Truthy(outcome.message)
    THEN [toasts |-> << [kind |-> "error", text |-> outcome.message] >>,
          navs |-> << LOGIN_PATH >>]
    ELSE [toasts |-> << [kind |-> "success", text |-> REGISTERED_SUCCESSFULLY] >>,
          navs |-> << LOGIN_PATH >>]

\* The try block notifying the generic text for a response with a message.
settleEffects_GenericText(outcome) ==
    IF outcome.kind = "throw" \/ Truthy(outcome.message)
    THEN [toasts |-> << [kind |-> "error", text |-> REGISTER_FAILED] >>,
          navs |-> << >>]
    ELSE [toasts |-> << [kind |-> "success", text |-> REGISTERED_SUCCESSFULLY] >>,
          navs |-> << LOGIN_PATH >>]

\* An empty catch block.
settleEffects_SilentCatch(outcome) ==
    IF outcome.kind = "throw"
    THEN [toasts |-> << >>, navs |-> << >>]
    ELSE IF Truthy(outcome.message)
    THEN [toasts |-> << [kind |-> "error", text |-> outcome.message] >>,
          navs |-> << >>]
    ELSE [toasts |-> << [kind |-> "success", text |-> REGISTERED_SUCCESSFULLY] >>,
          navs |-> << LOGIN_PATH >>]

\* A success that navigates without notifying.
settleEffects_SilentSuccess(outcome) ==
    IF outcome.kind = "throw"
    THEN [toasts |-> << [kind |-> "error", text |-> REGISTER_FAILED] >>,
          navs |-> << >>]
    ELSE IF Truthy(outcome.message)
    THEN [toasts |-> << [kind |-> "error", text |-> outcome.message] >>,
          navs |-> << >>]
    ELSE [toasts |-> << >>, navs |-> << LOGIN_PATH >>]

\* The rest of handleSubmit looking at the form again after the await: no
\* success, and no navigation, when the fields no longer pass the checks.
settleEffects_RereadsForm(outcome) ==
    IF outcome.kind = "throw"
    THEN [toasts |-> << [kind |-> "error", text |-> REGISTER_FAILED] >>,
          navs |-> << >>]
    ELSE IF Truthy(outcome.message)
    THEN [toasts |-> << [kind |-> "error", text |-> outcome.message] >>,
          navs |-> << >>]
    ELSE IF submitRejected(submitErrors(errors, formData))
    THEN [toasts |-> << [kind |-> "error", text |-> REGISTER_FAILED] >>,
          navs |-> << >>]
    ELSE [toasts |-> << [kind |-> "success", text |-> REGISTERED_SUCCESSFULLY] >>,
          navs |-> << LOGIN_PATH >>]

\* What the try/catch after the await does with the call's outcome: the
\* notifications and the navigations it adds.
settleEffects(outcome) ==
    IF outcome.kind = "throw"
    THEN [toasts |-> << [kind |-> "error", text |-> REGISTER_FAILED] >>,
          navs |-> << >>]
    ELSE IF Truthy(outcome.message)
    THEN [toasts |-> << [kind |-> "error", text |-> outcome.message] >>,
          navs |-> << >>]
    ELSE [toasts |-> << [kind |-> "success", text |-> REGISTERED_SUCCESSFULLY] >>,
          navs |-> << LOGIN_PATH >>]

\* setIsSubmitting(false) at the end of the try block instead of in finally.
settleIsSubmitting_NotOnThrow(outcome) == outcome.kind = "throw"

\* finally { setIsSubmitting(false) }
settleIsSubmitting(outcome) == FALSE

\* A gate that also consults repeatPassword.
SubmitDisabled_WithMismatch(submitting, errs) ==
    \/ submitting
    \/ Truthy(Prop(errs, "email"))
    \/ Truthy(Prop(errs, "password"))
    \/ Truthy(Prop(errs, "passwordValidate"))
    \/ Truthy(Prop(errs, "repeatPassword"))

\* The button's disabled attribute, as the render computes it.
SubmitDisabled(submitting, errs) ==
    \/ submitting
    \/ Truthy(Prop(errs, "email"))
    \/ Truthy(Prop(errs, "password"))
    \/ Truthy(Prop(errs, "passwordValidate"))

\* The cross-field message the render shows under the form.
Mismatch(errs) == Prop(errs, "repeatPassword")

\* ------------------------------------------------------------------ state

Event(op, field, outcome) ==
    [op |-> op, field |-> field, outcome |-> outcome,
     mismatchBefore |-> Truthy(Mismatch(errors)),
     passwordErrorBefore |-> Prop(errors, "password")]

Init ==
    /\ formData = [email |-> <<>>, password |-> <<>>, passwordValidate |-> <<>>]
    /\ errors = [email |-> "", password |-> "", repeatPassword |-> "",
                 passwordValidate |-> ""]
    /\ isSubmitting = FALSE
    /\ disabled = SubmitDisabled(isSubmitting, errors)
    /\ pending = << >>
    /\ issued = 0
    /\ toasts = << >>
    /\ navs = << >>
    /\ lastEvent = [op |-> "mount", field |-> "none", outcome |-> NoOutcome,
                    mismatchBefore |-> FALSE, passwordErrorBefore |-> ""]

\* onChange / onBlur of one of the three inputs.
Validate(field, value) ==
    /\ formData' = validateFormData(formData, field, value)
    /\ errors' = validateErrors(errors, formData, field, value)
    /\ disabled' = SubmitDisabled(isSubmitting, errors')
    /\ lastEvent' = Event("validate", field, NoOutcome)
    /\ UNCHANGED <<isSubmitting, pending, issued, toasts, navs>>

\* The form's submit event: handleSubmit up to its return at line 100,
\* rejected by the submit-time checks.  The handler tests neither
\* isSubmitting nor the button, so it runs whenever the event arrives.
SubmitRejected ==
    /\ submitRejected(submitErrors(errors, formData))
    /\ errors' = submitErrors(errors, formData)
    /\ disabled' = SubmitDisabled(isSubmitting, errors')
    /\ lastEvent' = Event("submit", "none", NoOutcome)
    /\ UNCHANGED <<formData, isSubmitting, pending, issued, toasts, navs>>

\* handleSubmit up to its await, the checks passed: register is called with
\* the e-mail and the password read at line 84.
SubmitAccepted ==
    /\ issued < MaxCalls
    /\ ~submitRejected(submitErrors(errors, formData))
    /\ errors' = submitErrors(errors, formData)
    /\ isSubmitting' = TRUE
    /\ pending' = Append(pending, [email |-> formData.email,
                                   password |-> formData.password])
    /\ issued' = issued + 1
    /\ disabled' = SubmitDisabled(isSubmitting', errors')
    /\ lastEvent' = Event("submit", "none", NoOutcome)
    /\ UNCHANGED <<formData, toasts, navs>>

\* The awaited call settles and handleSubmit runs to its end.
Settle(i, outcome) ==
    /\ i \in 1..Len(pending)
    /\ pending' = SubSeq(pending, 1, i - 1) \o SubSeq(pending, i + 1, Len(pending))
    /\ toasts' = toasts \o settleEffects(outcome).toasts
    /\ navs' = navs \o settleEffects(outcome).navs
    /\ isSubmitting' = settleIsSubmitting(outcome)
    /\ disabled' = SubmitDisabled(isSubmitting', errors)
    /\ lastEvent' = Event("settle", "none", outcome)
    /\ UNCHANGED <<formData, errors, issued>>

Next ==
    \/ \E field \in Fields : \E value \in InputValues(field) : Validate(field, value)
    \/ SubmitRejected
    \/ SubmitAccepted
    \/ \E i \in 1..MaxCalls : \E outcome \in Outcomes : Settle(i, outcome)

Spec == Init /\ [][Next]_vars

\* Nothing in the component bounds the awaited call: a call that never
\* settles leaves handleSubmit at its await, so Settle carries no fairness.

\* ------------------------------------------- validatePassword on its own

\* One character of each kind the policy tells apart: the four classes, the
\* underscore (a word character that [\W_] accepts), the blank and the
\* no-break space that trim strips, and the two line terminators that "."
\* refuses and a password input keeps.
PolicyAlphabet ==
    {"a", "A", "1", "!", "_", " ", NoBreakSpace,
     LineSeparator, ParagraphSeparator}

\* The passwords tried: a stem (nothing, five lowercase letters, five
\* characters of all four classes) behind up to MaxPrefix characters.
PolicyStems ==
    { <<>>, <<"b","b","b","b","b">>, <<"b","B","2","#","b">> }

PolicyInputs ==
    { prefix \o stem :
        prefix \in UNION { [1..k -> PolicyAlphabet] : k \in 0..MaxPrefix },
        stem \in PolicyStems }

\* The user fills the password field, still empty, with one of the
\* passwords tried.
PolicyType(value) ==
    /\ formData.password = <<>>
    /\ Validate("password", value)

\* The form used to reach validatePassword: the password is typed, and the
\* form submitted with the e-mail left empty, so that handleSubmit checks
\* the password and returns.
PolicyNext ==
    \/ \E value \in PolicyInputs : PolicyType(value)
    \/ SubmitRejected

PolicySpec == Init /\ [][PolicyNext]_vars

\* ----------------------------------------------------- what the claims use

\* The step just taken was handleSubmit up to its await.
SubmitStep == lastEvent'.op = "submit"

\* The step just taken was the rest of handleSubmit, after the await.
SettleStep == lastEvent'.op = "settle"

\* The step just taken was validate(field, .).
ValidateStep(field) == lastEvent'.op = "validate" /\ lastEvent'.field = field

\* The three submit-time checks, stated on the stored fields.
ChecksPass(fd) ==
    /\ Trim(fd.email) # <<>>
    /\ validatePassword(fd.password) = ""
    /\ Trim(fd.passwordValidate) # <<>>
    /\ fd.passwordValidate = fd.password

Credentials(fd) == [email |-> fd.email, password |-> fd.password]

SuccessToast == [kind |-> "success", text |-> REGISTERED_SUCCESSFULLY]
GenericErrorToast == [kind |-> "error", text |-> REGISTER_FAILED]
ErrorToast(text) == [kind |-> "error", text |-> text]

\* A value of the mismatch field as the render shows it: absent and empty
\* are the same.
Shown(x) == IF Truthy(x) THEN x ELSE ""

\* ------------------------------------------------------------------ C1

\* C1: a submit issues the registration call if and only if the stored
\* fields pass the three submit-time checks; a rejected submit issues no
\* call, and an issued call carries the e-mail and password of the checked
\* fields.
C1_SubmitCallsIffChecksPass ==
    [][SubmitStep =>
          /\ (issued' = issued + 1) <=> ChecksPass(formData)
          /\ ChecksPass(formData) =>
                pending' = Append(pending, Credentials(formData))
          /\ ~ChecksPass(formData) => pending' = pending /\ issued' = issued
          /\ \A i \in 1..Len(pending') :
                \E fd \in [email : EmailValues, password : PasswordValues,
                           passwordValidate : PasswordValues] :
                    ChecksPass(fd) /\ pending'[i] = Credentials(fd)]_vars

\* A call was issued and settled, and a later submit was rejected by the
\* password policy without a call.
C1_Witness ==
    /\ lastEvent.op = "submit"
    /\ issued = 1
    /\ pending = << >>
    /\ errors.password = PASSWORD_REQUIREMENTS_MISMATCH

\* ------------------------------------------------------------------ C2

\* C2: once the registration call has completed, in any of its three
\* outcomes, the form is idle: the step in which the call settles (response
\* without message, response with message, exception) sets isSubmitting
\* false, and in no state is isSubmitting true with no call outstanding.
C2_InFlightReturnsToIdle ==
    /\ [](pending = << >> => ~isSubmitting)
    /\ [][SettleStep => ~isSubmitting']_vars

\* The call threw and the form is idle again.
C2_Witness ==
    /\ lastEvent.op = "settle"
    /\ lastEvent.outcome.kind = "throw"
    /\ ~isSubmitting
    /\ pending = << >>

\* ------------------------------------------------------------------ C3

\* C3 as stated: a response without a message property gives one success
\* notification, one navigation to the login path and an idle form, and
\* navigation happens in no other outcome.
C3_Original ==
    [][/\ (SettleStep /\ lastEvent'.outcome.kind = "resolve"
                      /\ lastEvent'.outcome.message = undefined)
            => /\ toasts' = Append(toasts, SuccessToast)
               /\ navs' = Append(navs, LOGIN_PATH)
               /\ ~isSubmitting'
       /\ navs' # navs
            => (SettleStep /\ lastEvent'.outcome.kind = "resolve"
                           /\ lastEvent'.outcome.message = undefined)]_vars

\* C3 amended: a response whose message is absent or empty gives one
\* success notification, no error notification, one navigation to the login
\* path and an idle form; navigation happens in no other outcome (rejected
\* submit, response with a non-empty message, exception, edit).
C3_SuccessNavigatesOnce ==
    [][/\ (SettleStep /\ lastEvent'.outcome.kind = "resolve"
                      /\ ~Truthy(lastEvent'.outcome.message))
            => /\ toasts' = Append(toasts, SuccessToast)
               /\ navs' = Append(navs, LOGIN_PATH)
               /\ ~isSubmitting'
       /\ navs' # navs
            => (SettleStep /\ lastEvent'.outcome.kind = "resolve"
                           /\ ~Truthy(lastEvent'.outcome.message))]_vars

\* A response with an empty message was taken for success.
C3_Witness ==
    /\ lastEvent.op = "settle"
    /\ lastEvent.outcome = [kind |-> "resolve", message |-> ""]
    /\ toasts = << SuccessToast >>
    /\ navs = << LOGIN_PATH >>
    /\ ~isSubmitting

\* ------------------------------------------------------------------ C4

\* C4 as stated: a response that has a message gives one error
\* notification with that text, no navigation, unchanged fields and errors,
\* and an idle form.
C4_Original ==
    [][(SettleStep /\ lastEvent'.outcome.kind = "resolve"
                   /\ lastEvent'.outcome.message # undefined)
          => /\ toasts' = Append(toasts, ErrorToast(lastEvent'.outcome.message))
             /\ navs' = navs
             /\ formData' = formData
             /\ errors' = errors
             /\ ~isSubmitting']_vars

\* C4 amended: a response that has a non-empty message gives one error
\* notification with that text, no success notification, no navigation,
\* unchanged fields and errors, and an idle form.
C4_SoftFailureNotifiesMessage ==
    [][(SettleStep /\ lastEvent'.outcome.kind = "resolve"
                   /\ Truthy(lastEvent'.outcome.message))
          => /\ toasts' = Append(toasts, ErrorToast(lastEvent'.outcome.message))
             /\ navs' = navs
             /\ formData' = formData
             /\ errors' = errors
             /\ ~isSubmitting']_vars

\* The server answered "Email taken".
C4_Witness ==
    /\ lastEvent.op = "settle"
    /\ lastEvent.outcome = [kind |-> "resolve", message |-> "Email taken"]
    /\ toasts = << ErrorToast("Email taken") >>
    /\ navs = << >>
    /\ ~isSubmitting

\* ------------------------------------------------------------------ C5

\* C5: a call that throws gives one generic error notification, no
\* navigation, unchanged fields and errors, and an idle form whose button
\* is disabled only by the stored field errors.
C5_TransportFailureNotifiesGeneric ==
    [][(SettleStep /\ lastEvent'.outcome.kind = "throw")
          => /\ toasts' = Append(toasts, GenericErrorToast)
             /\ navs' = navs
             /\ formData' = formData
             /\ errors' = errors
             /\ ~isSubmitting'
             /\ disabled' = submitRejected(errors)]_vars

\* After a call that threw, a second call was issued.
C5_Witness ==
    /\ lastEvent.op = "submit"
    /\ issued = 2
    /\ toasts = << GenericErrorToast >>
    /\ navs = << >>
    /\ Len(pending) = 1

\* ------------------------------------------------------------------ C6

\* C6: the rendered disabled attribute equals isSubmitting or a non-empty
\* email, password or passwordValidate error; the mismatch field plays no
\* part.
C6_DisabledGate ==
    disabled = ( \/ isSubmitting
                 \/ Truthy(Prop(errors, "email"))
                 \/ Truthy(Prop(errors, "password"))
                 \/ Truthy(Prop(errors, "passwordValidate")) )

\* The mismatch message is shown and the button is enabled.
C6_Witness == Truthy(Mismatch(errors)) /\ ~disabled

\* ------------------------------------------------------------------ C7

\* C7 as stated: an edit of password or passwordValidate leaves mismatch
\* non-empty exactly when both stored values are non-blank and unequal.
C7_Original ==
    [][(ValidateStep("password") \/ ValidateStep("passwordValidate"))
          => (Truthy(Mismatch(errors')) <=>
                 /\ Trim(formData'.password) # <<>>
                 /\ Trim(formData'.passwordValidate) # <<>>
                 /\ formData'.password # formData'.passwordValidate)]_vars

\* C7 amended: an edit of password or passwordValidate leaves mismatch
\* non-empty exactly when the two stored values are unequal, blank or not;
\* no other operation turns an empty mismatch non-empty.
C7_MismatchIffUnequalWhenComputed ==
    [][/\ (ValidateStep("password") \/ ValidateStep("passwordValidate"))
            => (Truthy(Mismatch(errors')) <=>
                   formData'.password # formData'.passwordValidate)
       /\ ~(ValidateStep("password") \/ ValidateStep("passwordValidate"))
            => (Truthy(Mismatch(errors')) => Truthy(Mismatch(errors)))]_vars

\* An edit left one of the two fields blank and mismatch non-empty.
C7_Witness ==
    /\ lastEvent.op = "validate"
    /\ lastEvent.field \in {"password", "passwordValidate"}
    /\ Truthy(Mismatch(errors))
    /\ (Trim(formData.password) = <<>> \/ Trim(formData.passwordValidate) = <<>>)

\* ------------------------------------------------------------------ C8

\* C8 as stated: a submit leaves mismatch as it was.
C8_Original ==
    [][SubmitStep => Shown(Mismatch(errors')) = Shown(Mismatch(errors))]_vars

\* C8 amended: a submit replaces the whole ErrorState by the three
\* recomputed errors, so after any submit, rejected or accepted, mismatch
\* is empty whatever it was before.
C8_SubmitClearsMismatch ==
    [][SubmitStep =>
          /\ errors' = [email |-> validateEmpty(formData.email),
                        password |-> validatePassword(formData.password),
                        passwordValidate |->
                            IF Trim(formData.passwordValidate) = <<>>
                            THEN REQUIRED
                            ELSE IF formData.password # formData.passwordValidate
                            THEN PASSWORDS_DO_NOT_MATCH
                            ELSE ""]
          /\ ~Truthy(Mismatch(errors'))]_vars

\* A submit found mismatch non-empty and left it empty.
C8_Witness ==
    /\ lastEvent.op = "submit"
    /\ lastEvent.mismatchBefore
    /\ ~Truthy(Mismatch(errors))

\* ------------------------------------------------------------------ C9

\* C9: an edit of the e-mail field changes only the stored e-mail and the
\* e-mail error, which is Required exactly when the new value is blank.
C9_EmailEditFrame ==
    [][ValidateStep("email") =>
          /\ formData'.password = formData.password
          /\ formData'.passwordValidate = formData.passwordValidate
          /\ formData'.email \in EmailValues
          /\ errors'.email =
                (IF Trim(formData'.email) = <<>> THEN REQUIRED ELSE "")
          /\ \A k \in {"password", "passwordValidate", "repeatPassword"} :
                Prop(errors', k) = Prop(errors, k)
          /\ isSubmitting' = isSubmitting
          /\ UNCHANGED <<pending, issued, toasts, navs>>]_vars

\* The e-mail was edited after a rejected submit, whose errors stand.
C9_Witness ==
    /\ lastEvent.op = "validate"
    /\ lastEvent.field = "email"
    /\ "repeatPassword" \notin DOMAIN errors
    /\ errors.password = PASSWORD_REQUIREMENTS_MISMATCH
    /\ errors.passwordValidate = PASSWORDS_DO_NOT_MATCH
    /\ errors.email = ""

\* ------------------------------------------------------------------ C10

\* C10: a submit rejected by validation notifies nothing, navigates
\* nowhere, issues no call and does not touch isSubmitting (so it never
\* turns it true); the notifications emitted are as many as the
\* registration calls that have settled.
C10_ValidationNeverNotifies ==
    /\ [](Len(toasts) = issued - Len(pending))
    /\ [][(SubmitStep /\ ~ChecksPass(formData))
             => /\ toasts' = toasts
                /\ navs' = navs
                /\ isSubmitting' = isSubmitting
                /\ pending' = pending
                /\ issued' = issued]_vars

\* A submit was rejected after one call had settled with its notification.
C10_Witness ==
    /\ lastEvent.op = "submit"
    /\ ~ChecksPass(formData)
    /\ Len(toasts) = 1
    /\ issued = 1
    /\ pending = << >>

\* ------------------------------------------------------------------ C11

\* C11: at most one registration call is outstanding at any time, whatever
\* edit and submit events arrive while a call is awaited.
C11_OneCallOutstanding == Len(pending) <= 1

\* ------------------------------------------------------------------ C12

\* The policy as the claim and the message shown to the user state it.
HasCharIn(s, cls) == \E i \in 1..Len(s) : s[i] \in cls

StatedPolicy(value) ==
    IF Trim(value) = <<>> THEN REQUIRED
    ELSE IF /\ Len(value) >= MinPasswordLength
            /\ HasCharIn(value, Lower)
            /\ HasCharIn(value, Upper)
            /\ HasCharIn(value, Digit)
            /\ \E i \in 1..Len(value) : value[i] \notin (Lower \cup Upper \cup Digit)
    THEN ""
    ELSE PASSWORD_REQUIREMENTS_MISMATCH

\* C12: validatePassword gives Required for a blank value, nothing for a
\* value of at least 8 characters holding a lowercase letter, an uppercase
\* letter, a digit and a character that is neither, and the policy message
\* for every other value.
C12_PolicyAsStated ==
    lastEvent.op = "submit" => errors.password = StatedPolicy(formData.password)

\* ------------------------------------------------------------------ C13

\* The other password field.
Sibling(field) == IF field = "password" THEN "passwordValidate" ELSE "password"

PasswordFields == {"password", "passwordValidate"}

\* C13: an edit of password or passwordValidate sets mismatch from the
\* comparison of the new value with the sibling's value stored before the
\* edit, and the sibling's value is left as it was, so mismatch tells whether
\* the two stored values differ.
C13_EditComparesWithSibling ==
    [][\A f \in PasswordFields :
          ValidateStep(f) =>
             /\ formData'[Sibling(f)] = formData[Sibling(f)]
             /\ Mismatch(errors') =
                   (IF formData'[f] = formData[Sibling(f)] THEN ""
                    ELSE PASSWORDS_DO_NOT_MATCH)
             /\ Mismatch(errors') =
                   (IF formData'.password = formData'.passwordValidate THEN ""
                    ELSE PASSWORDS_DO_NOT_MATCH)]_vars

\* An edit made the two fields equal and emptied a mismatch that stood.
C13_Witness ==
    /\ lastEvent.op = "validate"
    /\ lastEvent.field \in PasswordFields
    /\ lastEvent.mismatchBefore
    /\ Mismatch(errors) = ""
    /\ formData.password = formData.passwordValidate
    /\ formData.password # <<>>

\* ------------------------------------------------------------------ C14

\* C14: an edit of password or passwordValidate sets that field's error to
\* Required exactly when the new value is blank, and leaves the e-mail
\* error, the sibling's error, the two other field values and isSubmitting
\* as they were.
C14_PasswordEditFrame ==
    [][\A f \in PasswordFields :
          ValidateStep(f) =>
             /\ errors'[f] = (IF Trim(formData'[f]) = <<>> THEN REQUIRED ELSE "")
             /\ Prop(errors', "email") = Prop(errors, "email")
             /\ Prop(errors', Sibling(f)) = Prop(errors, Sibling(f))
             /\ formData'.email = formData.email
             /\ formData'[Sibling(f)] = formData[Sibling(f)]
             /\ isSubmitting' = isSubmitting]_vars

\* The password was edited after a rejected submit, whose e-mail and
\* confirmation errors stand.
C14_Witness ==
    /\ lastEvent.op = "validate"
    /\ lastEvent.field = "password"
    /\ errors.email = REQUIRED
    /\ errors.passwordValidate = PASSWORDS_DO_NOT_MATCH

\* ------------------------------------------------------------------ C15

\* C15: no edit gives the password error the policy message: an edit of the
\* password field sets it from blankness alone, any other edit leaves it,
\* and only a submit turns it into the policy message.
C15_PolicyOnlyAtSubmit ==
    [][/\ ValidateStep("password") =>
             errors'.password =
                (IF Trim(formData'.password) = <<>> THEN REQUIRED ELSE "")
       /\ (ValidateStep("email") \/ ValidateStep("passwordValidate")) =>
             errors'.password = errors.password
       /\ (/\ errors'.password = PASSWORD_REQUIREMENTS_MISMATCH
           /\ errors.password # PASSWORD_REQUIREMENTS_MISMATCH) => SubmitStep]_vars

\* A submit had set the policy message; an edit of the password, to a value
\* that still fails the policy, removed it.
C15_Witness ==
    /\ lastEvent.op = "validate"
    /\ lastEvent.field = "password"
    /\ lastEvent.passwordErrorBefore = PASSWORD_REQUIREMENTS_MISMATCH
    /\ errors.password = ""
    /\ validatePassword(formData.password) = PASSWORD_REQUIREMENTS_MISMATCH

\* ------------------------------------------------------------------ C16

\* C16: whenever mismatch is non-empty, the stored password and the stored
\* confirmation are unequal.
C16_MismatchNeverStale ==
    Truthy(Mismatch(errors)) => formData.password # formData.passwordValidate

\* A mismatch stands after an edit of the e-mail, made while a call that a
\* matching pair of passwords allowed is awaited and the password has since
\* been changed.
C16_Witness ==
    /\ Truthy(Mismatch(errors))
    /\ lastEvent.op = "validate"
    /\ lastEvent.field = "email"
    /\ isSubmitting
    /\ formData.password # formData.passwordValidate

\* ------------------------------------------------------------------ C17

\* C17: when no call is awaited and the stored fields pass the three
\* submit-time checks, the submit button is enabled.
C17_ValidFormEnabled ==
    (~isSubmitting /\ ChecksPass(formData)) => ~disabled

\* ------------------------------------------------------------------ C18

\* C18: an e-mail error Required means a blank stored e-mail, a password
\* error Required a blank stored password, a password error of the policy
\* message a stored password that is not blank and that validatePassword
\* refuses, a confirmation error Required a blank stored confirmation.
C18_FieldErrorsSound ==
    /\ Prop(errors, "email") = REQUIRED => Trim(formData.email) = <<>>
    /\ Prop(errors, "password") = REQUIRED => Trim(formData.password) = <<>>
    /\ Prop(errors, "password") = PASSWORD_REQUIREMENTS_MISMATCH =>
          /\ Trim(formData.password) # <<>>
          /\ ~passwordRegexTest(formData.password)
    /\ Prop(errors, "passwordValidate") = REQUIRED =>
          Trim(formData.passwordValidate) = <<>>

\* The policy message stands, after an edit of another field, over a
\* password that fails the policy, beside a Required that stands over a
\* blank e-mail.
C18_Witness ==
    /\ lastEvent.op = "validate"
    /\ lastEvent.field = "passwordValidate"
    /\ errors.password = PASSWORD_REQUIREMENTS_MISMATCH
    /\ errors.email = REQUIRED
    /\ Trim(formData.password) # <<>>

\* ------------------------------------------------------------------ C19

\* What an outcome alone makes the rest of handleSubmit do.
OutcomeToasts(outcome) ==
    IF outcome.kind = "throw" THEN << GenericErrorToast >>
    ELSE IF outcome.message \in {undefined, ""} THEN << SuccessToast >>
    ELSE << ErrorToast(outcome.message) >>

OutcomeNavs(outcome) ==
    IF outcome.kind = "resolve" /\ outcome.message \in {undefined, ""}
    THEN << LOGIN_PATH >>
    ELSE << >>

\* C19: the call carries the e-mail and password stored when the submit
\* started; an edit made while it is awaited changes neither the call's
\* credentials nor isSubmitting and notifies and navigates nothing; and what
\* the settled call notifies and navigates depends on its outcome alone.
C19_EditsDoNotReachTheCall ==
    [][/\ (SubmitStep /\ pending' # pending) =>
             pending' = Append(pending, Credentials(formData))
       /\ (lastEvent'.op = "validate" /\ isSubmitting) =>
             /\ pending' = pending
             /\ isSubmitting'
             /\ toasts' = toasts
             /\ navs' = navs
       /\ SettleStep =>
             /\ toasts' = toasts \o OutcomeToasts(lastEvent'.outcome)
             /\ navs' = navs \o OutcomeNavs(lastEvent'.outcome)
             /\ ~isSubmitting']_vars

\* The call succeeded after the fields had been edited, while it was
\* awaited, into values that fail the checks.
C19_Witness ==
    /\ lastEvent.op = "settle"
    /\ lastEvent.outcome = [kind |-> "resolve", message |-> undefined]
    /\ toasts = << SuccessToast >>
    /\ navs = << LOGIN_PATH >>
    /\ ~ChecksPass(formData)
    /\ formData.email = <<>>
====
